---- MODULE Spec2Model ----
(***************************************************************************)
(* kiya: the local encrypted file store (backend.FileStore), the remote    *)
(* backends VaultStore and AWSSecretManager, and the command layer of      *)
(* cmd/kiya.                                                               *)
(*                                                                         *)
(* Byte strings are sequences.  A plaintext byte is a number.  A byte of   *)
(* an encrypted blob is a record: a byte drawn from the random source      *)
(* ("r"), a byte of XChaCha20 ciphertext ("c") or a byte of the Poly1305   *)
(* tag ("m").  The cipher is ideal: a ciphertext opens only under the key  *)
(* and nonce that sealed it.                                               *)
(***************************************************************************)
EXTENDS Integers, Sequences, FiniteSets, TLC

VARIABLES
    file,       \* the store file at FileStore.storeLocation
    cryptoKey,  \* FileStore.cryptoKey
    now,        \* the wall clock read by time.Now()
    last,       \* the call that returned last, with what it returned
    origin,     \* how each record of a store file found on disk was made
    secrets,    \* the Vault server's KV v2 secrets, by path
    asm,        \* the secrets of AWS Secrets Manager, by SecretId
    cmd,        \* kiya's command, flag.Arg(1)
    backend,    \* the backend of the profile, b in main
    pc,         \* where main is
    argKey,     \* flag.Arg(2)
    argValue,   \* the value the command puts
    items,      \* restore: the mapping decoded from the backup file
    todo,       \* restore: the keys the range loop has yet to visit
    attempts,   \* restore: the Put calls made, in order
    errlog,     \* restore: the keys logged as failed
    procs,      \* two processes on one store file: each one's call and place
    file0,      \* the store file before the two processes began
    order,      \* the processes in the order they returned
    overlap,    \* whether one took a step while the other was in its call
    flags,      \* backup, restore: oEncrypted and the key files named
    backup,     \* backup: the Backup value in main, Data and Secret
    backupFile, \* the file at oPath
    saved,      \* the mapping commandBackup collected
    backupFile0, \* the file at oPath before the command began
    clear,      \* the bytes given to encrypt
    drawn,      \* what the random source gave encrypt for salt and nonce
    sealed      \* the bytes encrypt returned

fsVars == <<file, cryptoKey, now, last>>
cliVars == <<cmd, backend, pc, argKey, argValue, items, todo, attempts, errlog>>
raceVars == <<procs, file0, order, overlap>>
bakVars == <<flags, backup, backupFile, saved, backupFile0>>
cipherVars == <<clear, drawn, sealed>>
\* what no call on the FileStore changes
notFsVars == <<origin, secrets, asm, cliVars, raceVars, bakVars, cipherVars>>

----------------------------------------------------------------------------
(* Universes of the inputs *)

Keys == {"a", "b"}
Values == {<<>>, <<7>>}
Passphrases == {"hunter2", "wrong"}
\* the draws of the random source for one encrypt: its salt byte, its nonce byte
RandDraws == {<<1, 2>>}
OSUser == "dev"

\* Put stops being called once the clock has reached MaxClock
MaxClock == 3

----------------------------------------------------------------------------
(* Go values *)

Nil == "nil"

NilSlice == [nil |-> TRUE, elems |-> <<>>]

MakeSlice(s) == [nil |-> FALSE, elems |-> s]

\* append(s, e)
AppendOne(s, e) == [nil |-> FALSE, elems |-> Append(s.elems, e)]

\* append(s, t...)
AppendAll(s, t) ==
    IF Len(t.elems) = 0 THEN s
    ELSE [nil |-> FALSE, elems |-> s.elems \o t.elems]

----------------------------------------------------------------------------
(* The envelope cipher: argon2 key derivation and XChaCha20-Poly1305 *)

SaltLen == 16
NonceLen == 24
MinBlobLen == 40
TagLen == 16
Argon2Time == 3
Argon2Threads == 4
Argon2KeyLen == 32

ErrFormat == "data has incorrect format"
ErrOpen == "chacha20poly1305: message authentication failed"

\* makeNonce(len): len bytes of the random source, r standing for the draw
makeNonce(len, r) == [i \in 1..len |-> [t |-> "r", v |-> r]]

\* a byte string as its length and its runs of equal bytes: what a digest of
\* the string depends on, one to one
Runs(bytes) ==
    <<Len(bytes),
      [i \in {j \in 1..Len(bytes) : j = 1 \/ bytes[j] # bytes[j - 1]} |-> bytes[i]]>>

\* argon2.Key(pass, salt, 3, 32*1024, 4, 32)
Argon2Key(pass, salt) ==
    [pass |-> pass, salt |-> Runs(salt), time |-> Argon2Time, memory |-> 32 * 1024,
     threads |-> Argon2Threads, keyLen |-> Argon2KeyLen]

\* cipher.Seal(nil, nonce, data, nil): the ciphertext, then the tag
Seal(key, nonce, data) ==
    LET mac == [k |-> key, n |-> Runs(nonce), p |-> data]
    IN  [i \in 1..(Len(data) + TagLen) |->
            IF i <= Len(data)
            THEN [t |-> "c", i |-> i, p |-> data[i]]
            ELSE [t |-> "m", i |-> i - Len(data), mac |-> mac]]

\* cipher.Open(nil, nonce, data, nil)
Open(key, nonce, data) ==
    IF Len(data) < TagLen THEN [err |-> ErrOpen, val |-> <<>>]
    ELSE LET m == Len(data) - TagLen
             plain == [i \in 1..m |-> IF data[i].t = "c" THEN data[i].p ELSE 0]
         IN  IF data = Seal(key, nonce, plain)
             THEN [err |-> Nil, val |-> plain]
             ELSE [err |-> ErrOpen, val |-> <<>>]

\* encrypt putting the nonce before the salt
encrypt_NonceFirst(data, pass, rs, rn) ==
    LET salt == makeNonce(SaltLen, rs)
        key == Argon2Key(pass, salt)
        nonce == makeNonce(NonceLen, rn)
        cipherText == Seal(key, nonce, data)
    IN  [err |-> Nil, val |-> (nonce \o salt) \o cipherText]

encrypt(data, pass, rs, rn) ==
    LET salt == makeNonce(SaltLen, rs)
        key == Argon2Key(pass, salt)
        nonce == makeNonce(NonceLen, rn)
        cipherText == Seal(key, nonce, data)
    IN  [err |-> Nil, val |-> (salt \o nonce) \o cipherText]

decrypt(data, pass) ==
    IF Len(data) < MinBlobLen THEN [err |-> ErrFormat, val |-> <<>>]
    ELSE LET salt == SubSeq(data, 1, SaltLen)
             nonce == SubSeq(data, SaltLen + 1, MinBlobLen)
             rest == SubSeq(data, MinBlobLen + 1, Len(data))
             key == Argon2Key(pass, salt)
         IN  Open(key, nonce, rest)

----------------------------------------------------------------------------
(* The store file and its JSON document *)

ZeroBytes == [kind |-> "zero", elems |-> <<>>]
JSONNull == [kind |-> "null", elems |-> <<>>]
JSONBrackets == [kind |-> "brackets", elems |-> <<>>]

Base64Encode(bytes) == [b64 |-> bytes]
Base64Decode(text) == text.b64

\* json.Marshal(&store) of a []FileStoreEntry
Marshal(store) ==
    IF store.nil THEN JSONNull
    ELSE IF Len(store.elems) = 0 THEN JSONBrackets
    ELSE [kind |-> "array",
          elems |-> [i \in 1..Len(store.elems) |->
                        [Value |-> Base64Encode(store.elems[i].Value),
                         KeyInfo |-> store.elems[i].KeyInfo]]]

ErrJSON == "unexpected end of JSON input"

\* json.Unmarshal(data, &store)
Unmarshal(data) ==
    IF data.kind = "null" THEN [err |-> Nil, store |-> NilSlice]
    ELSE IF data.kind = "brackets" THEN [err |-> Nil, store |-> MakeSlice(<<>>)]
    ELSE IF data.kind = "array"
    THEN [err |-> Nil,
          store |-> MakeSlice([i \in 1..Len(data.elems) |->
                        [Value |-> Base64Decode(data.elems[i].Value),
                         KeyInfo |-> data.elems[i].KeyInfo]])]
    ELSE [err |-> ErrJSON, store |-> NilSlice]

NoFile == [exists |-> FALSE, data |-> ZeroBytes]

\* ioutil.WriteFile(d.storeLocation, data, 0600)
WriteFile(data) == [exists |-> TRUE, data |-> data]

\* a store created as an empty JSON array
createStoreIfNotExists_Brackets(f) ==
    IF ~f.exists THEN [file |-> WriteFile(JSONBrackets), err |-> Nil]
    ELSE [file |-> f, err |-> Nil]

createStoreIfNotExists(f) ==
    IF ~f.exists THEN [file |-> WriteFile(ZeroBytes), err |-> Nil]
    ELSE [file |-> f, err |-> Nil]

getStore(f) ==
    LET c == createStoreIfNotExists(f)
    IN  IF c.err # Nil THEN [file |-> c.file, err |-> c.err, store |-> NilSlice]
        ELSE IF c.file.data.kind = "zero"
        THEN [file |-> c.file, err |-> Nil, store |-> NilSlice]
        ELSE LET u == Unmarshal(c.file.data)
             IN  IF u.err # Nil
                 THEN [file |-> c.file, err |-> u.err, store |-> NilSlice]
                 ELSE [file |-> c.file, err |-> Nil, store |-> u.store]

----------------------------------------------------------------------------
(* FileStore's operations: each returns the file it leaves, its error and  *)
(* its result                                                              *)

ErrAuth == "message authentication failed"
ErrNotFound(key) == key \o " not found"

NoOut == [bytes |-> <<>>, keys |-> <<>>, found |-> FALSE]

RECURSIVE GetLoop_NoAuth(_, _, _, _)
\* Get reporting an undecryptable record as a missing one
GetLoop_NoAuth(elems, i, key, pass) ==
    IF i > Len(elems) THEN [err |-> ErrNotFound(key), val |-> <<>>]
    ELSE IF elems[i].KeyInfo.Name = key
    THEN LET d == decrypt(elems[i].Value, pass)
         IN  IF d.err # Nil THEN [err |-> ErrNotFound(key), val |-> <<>>]
             ELSE [err |-> Nil, val |-> d.val]
    ELSE GetLoop_NoAuth(elems, i + 1, key, pass)

RECURSIVE GetLoop(_, _, _, _)
\* the loop of Get over storeData, from index i
GetLoop(elems, i, key, pass) ==
    IF i > Len(elems) THEN [err |-> ErrNotFound(key), val |-> <<>>]
    ELSE IF elems[i].KeyInfo.Name = key
    THEN LET d == decrypt(elems[i].Value, pass)
         IN  IF d.err # Nil THEN [err |-> ErrAuth, val |-> <<>>]
             ELSE [err |-> Nil, val |-> d.val]
    ELSE GetLoop(elems, i + 1, key, pass)

Get(f, pass, key) ==
    LET s == getStore(f)
    IN  IF s.err # Nil THEN [file |-> s.file, err |-> s.err, out |-> NoOut]
        ELSE LET g == GetLoop(s.store.elems, 1, key, pass)
             IN  [file |-> s.file, err |-> g.err,
                  out |-> [NoOut EXCEPT !.bytes = g.val]]

List(f) ==
    LET s == getStore(f)
    IN  IF s.err # Nil THEN [file |-> s.file, err |-> s.err, out |-> NoOut]
        ELSE [file |-> s.file, err |-> Nil,
              out |-> [NoOut EXCEPT !.keys =
                          [i \in 1..Len(s.store.elems) |-> s.store.elems[i].KeyInfo]]]

RECURSIVE ExistsLoop(_, _, _)
ExistsLoop(elems, i, key) ==
    IF i > Len(elems) THEN FALSE
    ELSE IF elems[i].KeyInfo.Name = key THEN TRUE
    ELSE ExistsLoop(elems, i + 1, key)

CheckExists(f, key) ==
    LET s == getStore(f)
    IN  IF s.err # Nil THEN [file |-> s.file, err |-> s.err, out |-> NoOut]
        ELSE [file |-> s.file, err |-> Nil,
              out |-> [NoOut EXCEPT !.found = ExistsLoop(s.store.elems, 1, key)]]

\* Put with the new entry first
PutStore_Prepend(discStoreEntries, newStore) ==
    AppendAll(AppendOne(NilSlice, newStore), discStoreEntries)

\* the slice Put marshals: the entries on disc, then the new one
PutStore(discStoreEntries, newStore) ==
    AppendOne(AppendAll(NilSlice, discStoreEntries), newStore)

Put(f, pass, key, value, rs, rn, t) ==
    LET c == createStoreIfNotExists(f)
        e == encrypt(value, pass, rs, rn)
        newStore == [Value |-> e.val,
                     KeyInfo |-> [Name |-> key, CreatedAt |-> t,
                                  Owner |-> OSUser, Info |-> ""]]
        s == getStore(c.file)
        store == PutStore(s.store, newStore)
    IN  IF c.err # Nil THEN [file |-> c.file, err |-> c.err, out |-> NoOut]
        ELSE IF e.err # Nil THEN [file |-> c.file, err |-> e.err, out |-> NoOut]
        ELSE IF s.err # Nil THEN [file |-> s.file, err |-> s.err, out |-> NoOut]
        ELSE [file |-> WriteFile(Marshal(store)), err |-> Nil, out |-> NoOut]

RECURSIVE DeleteLoop_FirstOnly(_, _, _, _)
\* Delete dropping the first record of the name only
DeleteLoop_FirstOnly(elems, i, key, newDiscStore) ==
    IF i > Len(elems) THEN newDiscStore
    ELSE IF elems[i].KeyInfo.Name # key
    THEN DeleteLoop_FirstOnly(elems, i + 1, key, AppendOne(newDiscStore, elems[i]))
    ELSE AppendAll(newDiscStore, MakeSlice(SubSeq(elems, i + 1, Len(elems))))

RECURSIVE DeleteLoop(_, _, _, _)
\* the loop of Delete over discStoreEntries, from index i, newDiscStore so far
DeleteLoop(elems, i, key, newDiscStore) ==
    IF i > Len(elems) THEN newDiscStore
    ELSE IF elems[i].KeyInfo.Name # key
    THEN DeleteLoop(elems, i + 1, key, AppendOne(newDiscStore, elems[i]))
    ELSE DeleteLoop(elems, i + 1, key, newDiscStore)

\* Delete without its guard against an empty newDiscStore
DeleteData_Unguarded(newDiscStore) == Marshal(newDiscStore)

\* the bytes Delete writes for newDiscStore
DeleteData(newDiscStore) ==
    IF Len(newDiscStore.elems) > 0 THEN Marshal(newDiscStore) ELSE ZeroBytes

Delete(f, key) ==
    LET s == getStore(f)
        newDiscStore == DeleteLoop(s.store.elems, 1, key, NilSlice)
    IN  IF s.err # Nil THEN [file |-> s.file, err |-> s.err, out |-> NoOut]
        ELSE [file |-> WriteFile(DeleteData(newDiscStore)), err |-> Nil,
              out |-> NoOut]

----------------------------------------------------------------------------
(* The Vault server, as the KV v2 server of TestVaultStore, and VaultStore *)

ProjectID == "test-project"

\* a Go map without entries
NoSecrets == [p \in {} |-> <<>>]

\* path.Join(p.ProjectID, key)
VaultPath(key) == ProjectID \o "/" \o key

StatusOK == 200
StatusNoContent == 204
StatusNotFound == 404

\* delete(m, k) of a Go map
MapDelete(m, k) == [x \in DOMAIN m \ {k} |-> m[x]]

\* m[k] = v of a Go map
MapSet(m, k, v) == [x \in DOMAIN m \cup {k} |-> IF x = k THEN v ELSE m[x]]

\* POST /v1/<mount>/data/<path>
ServerWrite(sec, path, data) ==
    [secrets |-> MapSet(sec, path, data), status |-> StatusOK, data |-> <<>>]

\* GET /v1/<mount>/data/<path>
ServerRead(sec, path) ==
    IF path \in DOMAIN sec
    THEN [secrets |-> sec, status |-> StatusOK, data |-> sec[path]]
    ELSE [secrets |-> sec, status |-> StatusNotFound, data |-> <<>>]

\* DELETE /v1/<mount>/metadata/<path>
ServerDelete(sec, path) ==
    [secrets |-> MapDelete(sec, path), status |-> StatusNoContent, data |-> <<>>]

\* the vault.ResponseError of a 404
ErrVaultNotFound == "404 Not Found"
ErrVaultExists(key) == "secret with key '" \o key \o "' already exists"
ErrVaultNoValue == "secret data did not contain a value for key 'value'"

VaultGet(sec, key) ==
    LET resp == ServerRead(sec, VaultPath(key))
    IN  IF resp.status = StatusNotFound
        THEN [secrets |-> resp.secrets, err |-> ErrVaultNotFound, out |-> NoOut]
        ELSE IF "value" \notin DOMAIN resp.data
        THEN [secrets |-> resp.secrets, err |-> ErrVaultNoValue, out |-> NoOut]
        ELSE [secrets |-> resp.secrets, err |-> Nil,
              out |-> [NoOut EXCEPT !.bytes = resp.data.value]]

VaultCheckExists(sec, key) ==
    LET resp == ServerRead(sec, VaultPath(key))
    IN  IF resp.status = StatusNotFound
        THEN [secrets |-> resp.secrets, err |-> Nil, out |-> NoOut]
        ELSE [secrets |-> resp.secrets, err |-> Nil,
              out |-> [NoOut EXCEPT !.found = TRUE]]

\* VaultStore.Put without its check of overwrite
VaultPut_NoCheck(sec, key, value, overwrite) ==
    LET resp == ServerWrite(sec, VaultPath(key), [value |-> value])
    IN  [secrets |-> resp.secrets, err |-> Nil, out |-> NoOut]

VaultPut(sec, key, value, overwrite) ==
    LET c == VaultCheckExists(sec, key)
        resp == ServerWrite(sec, VaultPath(key), [value |-> value])
    IN  IF ~overwrite /\ c.err # Nil
        THEN [secrets |-> sec, err |-> c.err, out |-> NoOut]
        ELSE IF ~overwrite /\ c.out.found
        THEN [secrets |-> sec, err |-> ErrVaultExists(key), out |-> NoOut]
        ELSE [secrets |-> resp.secrets, err |-> Nil, out |-> NoOut]

VaultDelete(sec, key) ==
    LET resp == ServerDelete(sec, VaultPath(key))
    IN  IF resp.status = StatusNotFound
        THEN [secrets |-> resp.secrets, err |-> Nil, out |-> NoOut]
        ELSE [secrets |-> resp.secrets, err |-> Nil, out |-> NoOut]

----------------------------------------------------------------------------
(* AWS Secrets Manager, as its API reference describes the calls made, and *)
(* AWSSecretManager.  A secret is made outside kiya (CreateSecret); a      *)
(* deleted one stays, scheduled for deletion.                              *)

ErrAsmNotFound == "ResourceNotFoundException"
ErrAsmInvalidRequest == "InvalidRequestException"

AsmSecret(value) == [SecretString |-> value, SecretBinary |-> <<>>, deleted |-> FALSE]

\* client.GetSecretValue
GetSecretValue(m, id) ==
    IF id \notin DOMAIN m THEN [asm |-> m, err |-> ErrAsmNotFound, out |-> <<>>]
    ELSE IF m[id].deleted THEN [asm |-> m, err |-> ErrAsmInvalidRequest, out |-> <<>>]
    ELSE [asm |-> m, err |-> Nil, out |-> m[id]]

\* client.PutSecretValue with a SecretString: a new AWSCURRENT version
PutSecretValue(m, id, value) ==
    IF id \notin DOMAIN m THEN [asm |-> m, err |-> ErrAsmNotFound]
    ELSE IF m[id].deleted THEN [asm |-> m, err |-> ErrAsmInvalidRequest]
    ELSE [asm |-> MapSet(m, id, AsmSecret(value)), err |-> Nil]

\* client.DeleteSecret without ForceDeleteWithoutRecovery
DeleteSecret(m, id) ==
    IF id \notin DOMAIN m THEN [asm |-> m, err |-> ErrAsmNotFound]
    ELSE [asm |-> MapSet(m, id, [m[id] EXCEPT !.deleted = TRUE]), err |-> Nil]

AsmGet(m, key) ==
    LET r == GetSecretValue(m, key)
    IN  IF r.err # Nil THEN [asm |-> r.asm, err |-> r.err, out |-> NoOut]
        ELSE [asm |-> r.asm, err |-> Nil,
              out |-> [NoOut EXCEPT !.bytes = r.out.SecretBinary]]

AsmCheckExists(m, key) ==
    LET r == GetSecretValue(m, key)
    IN  IF r.err # Nil THEN [asm |-> r.asm, err |-> r.err, out |-> NoOut]
        ELSE [asm |-> r.asm, err |-> Nil, out |-> [NoOut EXCEPT !.found = TRUE]]

AsmPut(m, key, value, overwrite) ==
    LET r == PutSecretValue(m, key, value)
    IN  [asm |-> r.asm, err |-> r.err, out |-> NoOut]

AsmDelete(m, key) ==
    LET r == DeleteSecret(m, key)
    IN  [asm |-> r.asm, err |-> r.err, out |-> NoOut]

----------------------------------------------------------------------------
(* The store as a state machine: one action per call *)

CallOn(on, op, key, value, overwrite, had, r) ==
    [on |-> on, op |-> op, key |-> key, value |-> value, overwrite |-> overwrite,
     had |-> had, err |-> r.err, out |-> r.out]

Call(op, key, value, had, r) == CallOn("file", op, key, value, FALSE, had, r)

NoCall == Call("none", "", <<>>, FALSE, [err |-> Nil, out |-> NoOut])

\* whether the file holds a record named key when a call begins
Had(f, key) == CheckExists(f, key).out.found

Returned(c) == last' = c

NewFileStore(pass) ==
    /\ cryptoKey' = pass
    /\ Returned(Call("NewFileStore", "", <<>>, FALSE, [err |-> Nil, out |-> NoOut]))
    /\ UNCHANGED <<file, now>>
    /\ UNCHANGED notFsVars

DoGet(key) ==
    LET r == Get(file, cryptoKey, key)
    IN  /\ file' = r.file
        /\ Returned(Call("Get", key, <<>>, Had(file, key), r))
        /\ UNCHANGED <<cryptoKey, now>>
        /\ UNCHANGED notFsVars

DoList ==
    LET r == List(file)
    IN  /\ file' = r.file
        /\ Returned(Call("List", "", <<>>, FALSE, r))
        /\ UNCHANGED <<cryptoKey, now>>
        /\ UNCHANGED notFsVars

DoCheckExists(key) ==
    LET r == CheckExists(file, key)
    IN  /\ file' = r.file
        /\ Returned(Call("CheckExists", key, <<>>, Had(file, key), r))
        /\ UNCHANGED <<cryptoKey, now>>
        /\ UNCHANGED notFsVars

DoPut(key, value, rs, rn) ==
    /\ now < MaxClock
    /\ LET r == Put(file, cryptoKey, key, value, rs, rn, now + 1)
       IN  /\ file' = r.file
           /\ Returned(Call("Put", key, value, Had(file, key), r))
    /\ now' = now + 1
    /\ UNCHANGED cryptoKey
    /\ UNCHANGED notFsVars

DoDelete(key) ==
    LET r == Delete(file, key)
    IN  /\ file' = r.file
        /\ Returned(Call("Delete", key, <<>>, Had(file, key), r))
        /\ UNCHANGED <<cryptoKey, now>>
        /\ UNCHANGED notFsVars

vars == <<file, cryptoKey, now, last, origin, secrets, asm, cliVars, raceVars, bakVars, cipherVars>>

\* main is not running
CliOff ==
    /\ cmd = ""
    /\ backend = ""
    /\ pc = "off"
    /\ argKey = ""
    /\ argValue = <<>>
    /\ items = NoSecrets
    /\ todo = {}
    /\ attempts = <<>>
    /\ errlog = <<>>

\* one process only
RaceOff ==
    /\ procs = <<>>
    /\ file0 = NoFile
    /\ order = <<>>
    /\ overlap = FALSE

\* no backup at hand
BakOff ==
    /\ flags = <<>>
    /\ backup = <<>>
    /\ backupFile = <<>>
    /\ saved = <<>>
    /\ backupFile0 = <<>>

\* no bytes at the cipher
CipherOff ==
    /\ clear = <<>>
    /\ drawn = <<>>
    /\ sealed = <<>>

Init ==
    /\ file \in {NoFile, WriteFile(ZeroBytes)}
    /\ cryptoKey \in Passphrases
    /\ now = 0
    /\ last = NoCall
    /\ origin = <<>>
    /\ secrets = NoSecrets
    /\ asm = NoSecrets
    /\ CliOff
    /\ RaceOff
    /\ BakOff
    /\ CipherOff

Next ==
    \/ \E pass \in Passphrases : NewFileStore(pass)
    \/ \E key \in Keys : DoGet(key)
    \/ DoList
    \/ \E key \in Keys : DoCheckExists(key)
    \/ \E key \in Keys, value \in Values, r \in RandDraws :
          DoPut(key, value, r[1], r[2])
    \/ \E key \in Keys : DoDelete(key)

Spec == Init /\ [][Next]_vars

----------------------------------------------------------------------------
(* Store files found on disk: records sealed under either passphrase, some *)
(* with a byte changed since                                               *)

MaxStored == 2

\* the bytes changed: none, one of the salt, one of the nonce, one of the
\* ciphertext, the last of the tag
Tampers == {0, 1, SaltLen + 1, MinBlobLen + 1, MinBlobLen + 1 + TagLen}
StoredValue == <<7>>

Tamper(blob, at) ==
    IF at = 0 THEN blob ELSE [blob EXCEPT ![at] = [t |-> "x", was |-> blob[at]]]

Origins == [Name : Keys, pass : Passphrases, tamper : Tampers]

StoredEntry(o, t) ==
    [Value |-> Tamper(encrypt(StoredValue, o.pass, 1, 2).val, o.tamper),
     KeyInfo |-> [Name |-> o.Name, CreatedAt |-> t, Owner |-> OSUser, Info |-> ""]]

StoredFile(os) ==
    WriteFile(Marshal(MakeSlice([i \in 1..Len(os) |-> StoredEntry(os[i], i)])))

InitStored ==
    /\ \E n \in 1..MaxStored : origin \in [1..n -> Origins]
    /\ file = StoredFile(origin)
    /\ cryptoKey \in Passphrases
    /\ now = MaxStored
    /\ last = NoCall
    /\ secrets = NoSecrets
    /\ asm = NoSecrets
    /\ CliOff
    /\ RaceOff
    /\ BakOff
    /\ CipherOff

NextStored ==
    \/ \E pass \in Passphrases : NewFileStore(pass)
    \/ \E key \in Keys : DoGet(key)
    \/ DoList
    \/ \E key \in Keys : DoCheckExists(key)

SpecStored == InitStored /\ [][NextStored]_vars

----------------------------------------------------------------------------
(* The remote backends as a state machine: one action per call *)

\* whether a secret is stored under the key when a call begins
VaultHad(sec, key) == VaultPath(key) \in DOMAIN sec
AsmHad(m, key) == key \in DOMAIN m /\ ~m[key].deleted

VaultDoGet(key) ==
    LET r == VaultGet(secrets, key)
    IN  /\ secrets' = r.secrets
        /\ last' = CallOn("vault", "Get", key, <<>>, FALSE, VaultHad(secrets, key), r)
        /\ UNCHANGED <<file, cryptoKey, now, origin, asm, cliVars, raceVars, bakVars, cipherVars>>

VaultDoCheckExists(key) ==
    LET r == VaultCheckExists(secrets, key)
    IN  /\ secrets' = r.secrets
        /\ last' = CallOn("vault", "CheckExists", key, <<>>, FALSE,
                          VaultHad(secrets, key), r)
        /\ UNCHANGED <<file, cryptoKey, now, origin, asm, cliVars, raceVars, bakVars, cipherVars>>

VaultDoPut(key, value, overwrite) ==
    LET r == VaultPut(secrets, key, value, overwrite)
    IN  /\ secrets' = r.secrets
        /\ last' = CallOn("vault", "Put", key, value, overwrite,
                          VaultHad(secrets, key), r)
        /\ UNCHANGED <<file, cryptoKey, now, origin, asm, cliVars, raceVars, bakVars, cipherVars>>

VaultDoDelete(key) ==
    LET r == VaultDelete(secrets, key)
    IN  /\ secrets' = r.secrets
        /\ last' = CallOn("vault", "Delete", key, <<>>, FALSE,
                          VaultHad(secrets, key), r)
        /\ UNCHANGED <<file, cryptoKey, now, origin, asm, cliVars, raceVars, bakVars, cipherVars>>

AsmDoGet(key) ==
    LET r == AsmGet(asm, key)
    IN  /\ asm' = r.asm
        /\ last' = CallOn("asm", "Get", key, <<>>, FALSE, AsmHad(asm, key), r)
        /\ UNCHANGED <<file, cryptoKey, now, origin, secrets, cliVars, raceVars, bakVars, cipherVars>>

AsmDoCheckExists(key) ==
    LET r == AsmCheckExists(asm, key)
    IN  /\ asm' = r.asm
        /\ last' = CallOn("asm", "CheckExists", key, <<>>, FALSE, AsmHad(asm, key), r)
        /\ UNCHANGED <<file, cryptoKey, now, origin, secrets, cliVars, raceVars, bakVars, cipherVars>>

AsmDoPut(key, value, overwrite) ==
    LET r == AsmPut(asm, key, value, overwrite)
    IN  /\ asm' = r.asm
        /\ last' = CallOn("asm", "Put", key, value, overwrite, AsmHad(asm, key), r)
        /\ UNCHANGED <<file, cryptoKey, now, origin, secrets, cliVars, raceVars, bakVars, cipherVars>>

AsmDoDelete(key) ==
    LET r == AsmDelete(asm, key)
    IN  /\ asm' = r.asm
        /\ last' = CallOn("asm", "Delete", key, <<>>, FALSE, AsmHad(asm, key), r)
        /\ UNCHANGED <<file, cryptoKey, now, origin, secrets, cliVars, raceVars, bakVars, cipherVars>>

\* the secrets made in AWS Secrets Manager before kiya runs
AsmStarts ==
    UNION {[ids -> {AsmSecret(v) : v \in Values}] : ids \in SUBSET Keys}

InitRemote ==
    /\ file = NoFile
    /\ cryptoKey \in Passphrases
    /\ now = 0
    /\ last = NoCall
    /\ origin = <<>>
    /\ secrets = NoSecrets
    /\ asm \in AsmStarts
    /\ CliOff
    /\ RaceOff
    /\ BakOff
    /\ CipherOff

NextRemote ==
    \/ \E key \in Keys : VaultDoGet(key)
    \/ \E key \in Keys : VaultDoCheckExists(key)
    \/ \E key \in Keys, value \in Values, overwrite \in BOOLEAN :
          VaultDoPut(key, value, overwrite)
    \/ \E key \in Keys : VaultDoDelete(key)
    \/ \E key \in Keys : AsmDoGet(key)
    \/ \E key \in Keys : AsmDoCheckExists(key)
    \/ \E key \in Keys, value \in Values, overwrite \in BOOLEAN :
          AsmDoPut(key, value, overwrite)
    \/ \E key \in Keys : AsmDoDelete(key)

SpecRemote == InitRemote /\ [][NextRemote]_vars

----------------------------------------------------------------------------
(* kiya's main: the commands that read or write secrets                    *)

Commands == {"put", "paste", "generate", "copy", "get", "move", "backup", "restore"}
Backends == {"file", "vault", "asm"}

\* the cryptoKey of a FileStore that has been given no passphrase
NoPassphrase == ""

\* fmt.Sprintf("%s_restore", k)
Restored(k) == k \o "_restore"

shouldPromptForPassword(b) == b = "file"

\* FileStore.SetParameter: the cryptoKey after the call
SetParameter(old, name, value) ==
    IF name = "masterPassword" THEN value ELSE old

\* b.Put(ctx, &target, key, value, overwrite) on the profile's backend: what
\* it leaves and returns.  FileStore.Put takes no overwrite.
BackendPut(key, value, overwrite, rs, rn) ==
    IF backend = "file"
    THEN LET r == Put(file, cryptoKey, key, value, rs, rn, now + 1)
         IN  [file |-> r.file, secrets |-> secrets, asm |-> asm, now |-> now + 1,
              call |-> CallOn("file", "Put", key, value, overwrite, Had(file, key), r)]
    ELSE IF backend = "vault"
    THEN LET r == VaultPut(secrets, key, value, overwrite)
         IN  [file |-> file, secrets |-> r.secrets, asm |-> asm, now |-> now,
              call |-> CallOn("vault", "Put", key, value, overwrite,
                              VaultHad(secrets, key), r)]
    ELSE LET r == AsmPut(asm, key, value, overwrite)
         IN  [file |-> file, secrets |-> secrets, asm |-> r.asm, now |-> now,
              call |-> CallOn("asm", "Put", key, value, overwrite, AsmHad(asm, key), r)]

\* b.Get(ctx, &target, key) on the profile's backend
BackendGet(key) ==
    IF backend = "file"
    THEN LET r == Get(file, cryptoKey, key)
         IN  [file |-> r.file, secrets |-> secrets, asm |-> asm, now |-> now,
              call |-> CallOn("file", "Get", key, <<>>, FALSE, Had(file, key), r)]
    ELSE IF backend = "vault"
    THEN LET r == VaultGet(secrets, key)
         IN  [file |-> file, secrets |-> r.secrets, asm |-> asm, now |-> now,
              call |-> CallOn("vault", "Get", key, <<>>, FALSE, VaultHad(secrets, key), r)]
    ELSE LET r == AsmGet(asm, key)
         IN  [file |-> file, secrets |-> secrets, asm |-> r.asm, now |-> now,
              call |-> CallOn("asm", "Get", key, <<>>, FALSE, AsmHad(asm, key), r)]

\* the state a backend call leaves
Called(r) ==
    /\ file' = r.file
    /\ secrets' = r.secrets
    /\ asm' = r.asm
    /\ now' = r.now
    /\ last' = r.call

\* if shouldPromptForPassword(b) { b.SetParameter("masterPassword", pass) }
MainPrompt ==
    /\ pc = "main"
    /\ cmd \in Commands \ {"restore"}
    /\ IF shouldPromptForPassword(backend)
       THEN \E pass \in Passphrases :
               cryptoKey' = SetParameter(cryptoKey, "masterPassword", pass)
       ELSE cryptoKey' = cryptoKey
    /\ pc' = "run"
    /\ UNCHANGED <<file, now, last, origin, secrets, asm, raceVars, bakVars, cipherVars>>
    /\ UNCHANGED <<cmd, backend, argKey, argValue, items, todo, attempts, errlog>>

\* put, paste, generate: commandPutPasteGenerate puts the value
MainPut ==
    /\ pc = "run"
    /\ cmd \in {"put", "paste", "generate"}
    /\ \E overwrite \in BOOLEAN, r \in RandDraws :
          Called(BackendPut(argKey, argValue, overwrite, r[1], r[2]))
    /\ pc' = "done"
    /\ UNCHANGED <<cryptoKey, origin, raceVars, bakVars, cipherVars>>
    /\ UNCHANGED <<cmd, backend, argKey, argValue, items, todo, attempts, errlog>>

\* backup: commandBackup gets the value of a key through b.Get
MainBackup ==
    /\ pc = "run"
    /\ cmd = "backup"
    /\ Called(BackendGet(argKey))
    /\ pc' = "done"
    /\ UNCHANGED <<cryptoKey, origin, raceVars, bakVars, cipherVars>>
    /\ UNCHANGED <<cmd, backend, argKey, argValue, items, todo, attempts, errlog>>

\* copy, get: b.Get(ctx, &target, key)
MainGet ==
    /\ pc = "run"
    /\ cmd \in {"copy", "get"}
    /\ Called(BackendGet(argKey))
    /\ pc' = "done"
    /\ UNCHANGED <<cryptoKey, origin, raceVars, bakVars, cipherVars>>
    /\ UNCHANGED <<cmd, backend, argKey, argValue, items, todo, attempts, errlog>>

\* move: commandMove gets the source key
MainMoveGet ==
    /\ pc = "run"
    /\ cmd = "move"
    /\ LET r == BackendGet(argKey)
       IN  /\ Called(r)
           /\ pc' = IF r.call.err = Nil THEN "move" ELSE "done"
    /\ UNCHANGED <<cryptoKey, origin, raceVars, bakVars, cipherVars>>
    /\ UNCHANGED <<cmd, backend, argKey, argValue, items, todo, attempts, errlog>>

\* move: commandMove puts what it got under the target key
MainMovePut ==
    /\ pc = "move"
    /\ \E target \in Keys, overwrite \in BOOLEAN, r \in RandDraws :
          Called(BackendPut(target, last.out.bytes, overwrite, r[1], r[2]))
    /\ pc' = "done"
    /\ UNCHANGED <<cryptoKey, origin, raceVars, bakVars, cipherVars>>
    /\ UNCHANGED <<cmd, backend, argKey, argValue, items, todo, attempts, errlog>>

\* restore: os.ReadFile and json.Unmarshal into items
RestoreRead ==
    /\ pc = "main"
    /\ cmd = "restore"
    /\ todo' = DOMAIN items
    /\ pc' = "loop"
    /\ UNCHANGED <<file, cryptoKey, now, last, origin, secrets, asm, raceVars, bakVars, cipherVars>>
    /\ UNCHANGED <<cmd, backend, argKey, argValue, items, attempts, errlog>>

\* restore stopping at the first Put that fails
RestoreRest_Abort(left, k, err) == IF err # Nil THEN {} ELSE left \ {k}

\* restore: the keys left to the range loop after the Put of k returned err
RestoreRest(left, k, err) == left \ {k}

\* restore: one turn of the loop over items, in the order Go ranges the map
RestorePut(k) ==
    /\ pc = "loop"
    /\ k \in todo
    /\ \E r \in RandDraws :
          LET c == BackendPut(Restored(k), items[k], FALSE, r[1], r[2])
          IN  /\ Called(c)
              /\ attempts' = Append(attempts, c.call)
              /\ errlog' = IF c.call.err # Nil THEN Append(errlog, k) ELSE errlog
              /\ todo' = RestoreRest(todo, k, c.call.err)
    /\ UNCHANGED <<cryptoKey, origin, raceVars, bakVars, cipherVars>>
    /\ UNCHANGED <<cmd, backend, pc, argKey, argValue, items>>

\* restore: the loop is over
RestoreEnd ==
    /\ pc = "loop"
    /\ todo = {}
    /\ pc' = "done"
    /\ UNCHANGED <<file, cryptoKey, now, last, origin, secrets, asm, raceVars, bakVars, cipherVars>>
    /\ UNCHANGED <<cmd, backend, argKey, argValue, items, todo, attempts, errlog>>

\* the keys a command may meet in its backend
DestKeys == Keys \cup {Restored(k) : k \in Keys}

VaultStarts ==
    UNION {[{VaultPath(k) : k \in ks} -> {[value |-> StoredValue]}] :
              ks \in SUBSET DestKeys}

\* a secret made outside kiya with a SecretBinary
AsmBinarySecret(value) ==
    [SecretString |-> <<>>, SecretBinary |-> value, deleted |-> FALSE]

AsmDestStarts ==
    UNION {[ks -> {AsmSecret(StoredValue), AsmBinarySecret(StoredValue)}] :
              ks \in SUBSET DestKeys}

\* the store file a command may meet: absent, or holding one record
FileDestStarts ==
    {NoFile} \cup
    {StoredFile(<<[Name |-> k, pass |-> "hunter2", tamper |-> 0]>>) : k \in DestKeys}

\* the mappings a backup file decodes to
ItemMaps == UNION {[ks -> Values] : ks \in SUBSET Keys}

InitCLI ==
    /\ cmd \in Commands
    /\ backend \in Backends
    /\ pc = "main"
    /\ IF cmd = "restore"
       THEN argKey = "" /\ argValue = <<>> /\ items \in ItemMaps
       ELSE argKey \in Keys /\ argValue \in Values /\ items = NoSecrets
    /\ todo = {}
    /\ attempts = <<>>
    /\ errlog = <<>>
    /\ IF backend = "file" THEN file \in FileDestStarts ELSE file = NoFile
    /\ cryptoKey = NoPassphrase
    /\ now = 1
    /\ last = NoCall
    /\ origin = <<>>
    /\ IF backend = "vault" THEN secrets \in VaultStarts ELSE secrets = NoSecrets
    /\ IF backend = "asm" THEN asm \in AsmDestStarts ELSE asm = NoSecrets
    /\ RaceOff
    /\ BakOff
    /\ CipherOff

NextCLI ==
    \/ MainPrompt
    \/ MainPut
    \/ MainGet
    \/ MainBackup
    \/ MainMoveGet
    \/ MainMovePut
    \/ RestoreRead
    \/ \E k \in Keys : RestorePut(k)
    \/ RestoreEnd

SpecCLI == InitCLI /\ [][NextCLI]_vars

----------------------------------------------------------------------------
(* Two processes calling Put or Delete on one store file, a step for each  *)
(* system call                                                             *)

Procs == {1, 2}

\* os.Stat finding no file
Stat_Absent(f) == FALSE

\* os.Stat: whether the file is there
Stat(f) == f.exists

ErrNoEnt == "no such file or directory"

\* ioutil.ReadFile
ReadFile(f) ==
    IF f.exists THEN [err |-> Nil, data |-> f.data]
    ELSE [err |-> ErrNoEnt, data |-> ZeroBytes]

\* where a call begins: Put with its own createStoreIfNotExists, Delete
\* with getStore's
Start(op) == IF op = "Put" THEN "stat1" ELSE "stat2"

Proc(op, key, value) ==
    [op |-> op, key |-> key, value |-> value, pc |-> Start(op),
     store |-> NilSlice, entry |-> <<>>, err |-> Nil]

Running(q) == procs[q].pc \notin {Start(procs[q].op), "done"}

\* a step of p: whether it falls within a call of another process
Step(p) ==
    /\ overlap' = (overlap \/ \E q \in Procs \ {p} : Running(q))
    /\ UNCHANGED <<cryptoKey, last, origin, secrets, asm, cliVars, file0, bakVars, cipherVars>>

Finished(p) ==
    order' = IF procs'[p].pc = "done" THEN Append(order, p) ELSE order

\* createStoreIfNotExists: os.Stat
RaceStat(p) ==
    /\ procs[p].pc \in {"stat1", "stat2"}
    /\ procs' = [procs EXCEPT ![p].pc =
                    IF ~Stat(file)
                    THEN (IF procs[p].pc = "stat1" THEN "init1" ELSE "init2")
                    ELSE (IF procs[p].pc = "stat1" THEN "entry" ELSE "read")]
    /\ Finished(p)
    /\ Step(p)
    /\ UNCHANGED <<file, now>>

\* createStoreIfNotExists: ioutil.WriteFile of no bytes
RaceCreate(p) ==
    /\ procs[p].pc \in {"init1", "init2"}
    /\ file' = WriteFile(ZeroBytes)
    /\ procs' = [procs EXCEPT ![p].pc =
                    IF procs[p].pc = "init1" THEN "entry" ELSE "read"]
    /\ Finished(p)
    /\ Step(p)
    /\ UNCHANGED now

\* Put: encrypt the value and build newStore at time.Now()
RaceEntry(p, rs, rn) ==
    /\ procs[p].pc = "entry"
    /\ LET e == encrypt(procs[p].value, cryptoKey, rs, rn)
       IN  procs' = [procs EXCEPT ![p] =
              IF e.err # Nil THEN [@ EXCEPT !.err = e.err, !.pc = "done"]
              ELSE [@ EXCEPT !.pc = "stat2",
                             !.entry = [Value |-> e.val,
                                        KeyInfo |-> [Name |-> procs[p].key,
                                                     CreatedAt |-> now + 1,
                                                     Owner |-> OSUser,
                                                     Info |-> ""]]]]
    /\ now' = now + 1
    /\ Finished(p)
    /\ Step(p)
    /\ UNCHANGED file

\* getStore: ioutil.ReadFile and json.Unmarshal
RaceRead(p) ==
    /\ procs[p].pc = "read"
    /\ LET r == ReadFile(file)
           s == getStore(WriteFile(r.data))
       IN  procs' = [procs EXCEPT ![p] =
              IF r.err # Nil THEN [@ EXCEPT !.err = r.err, !.pc = "done"]
              ELSE IF s.err # Nil THEN [@ EXCEPT !.err = s.err, !.pc = "done"]
              ELSE [@ EXCEPT !.store = s.store, !.pc = "write"]]
    /\ Finished(p)
    /\ Step(p)
    /\ UNCHANGED <<file, now>>

\* Put, Delete: ioutil.WriteFile of the whole updated store
RaceWrite(p) ==
    /\ procs[p].pc = "write"
    /\ file' = IF procs[p].op = "Put"
               THEN WriteFile(Marshal(PutStore(procs[p].store, procs[p].entry)))
               ELSE WriteFile(DeleteData(
                        DeleteLoop(procs[p].store.elems, 1, procs[p].key, NilSlice)))
    /\ procs' = [procs EXCEPT ![p].pc = "done"]
    /\ Finished(p)
    /\ Step(p)
    /\ UNCHANGED now

RaceOps ==
    {Proc("Put", k, StoredValue) : k \in Keys} \cup
    {Proc("Delete", k, <<>>) : k \in Keys}

\* the file before the two calls: absent, empty, or holding one record
RaceFiles ==
    {NoFile, WriteFile(ZeroBytes)} \cup
    {StoredFile(<<[Name |-> k, pass |-> "hunter2", tamper |-> 0]>>) : k \in Keys}

InitRace ==
    /\ procs \in [Procs -> RaceOps]
    /\ file \in RaceFiles
    /\ file0 = file
    /\ order = <<>>
    /\ overlap = FALSE
    /\ cryptoKey = "hunter2"
    /\ now = 1
    /\ last = NoCall
    /\ origin = <<>>
    /\ secrets = NoSecrets
    /\ asm = NoSecrets
    /\ CliOff
    /\ BakOff
    /\ CipherOff

NextRace ==
    \/ \E p \in Procs : RaceStat(p)
    \/ \E p \in Procs : RaceCreate(p)
    \/ \E p \in Procs, r \in RandDraws : RaceEntry(p, r[1], r[2])
    \/ \E p \in Procs : RaceRead(p)
    \/ \E p \in Procs : RaceWrite(p)

SpecRace == InitRace /\ [][NextRace]_vars

----------------------------------------------------------------------------
(* kiya's backup command, and restore reading the file it wrote            *)

KeyPairs == {"K", "other"}

\* Backup.Secret of a backup that is not encrypted
NoSecret == [t |-> "none"]

\* generateSecret: a fresh envelope key
generateSecret(r) == [t |-> "secret", v |-> r]

\* the bytes commandBackup serializes a mapping to
Serialize(mapping) == [t |-> "mapping", items |-> mapping]

\* encryptFile: the payload under the envelope key
encryptFile(data, secret) == [t |-> "sealed", key |-> secret, data |-> data]

\* encryptSecret: the envelope key under the recipient's public key
encryptSecret(secret, pub) == [t |-> "wrapped", pub |-> pub, secret |-> secret]

\* backup.String(): the serialized envelope
BackupString(b) == [t |-> "envelope", Payload |-> b.Data, WrappedKey |-> b.Secret]

ZeroText == [t |-> "zero"]
NoBackupFile == [exists |-> FALSE, text |-> ZeroText]
CreatedFile == [exists |-> TRUE, text |-> ZeroText]

\* a backup written to oPath by an earlier run
OldBackupFile ==
    [exists |-> TRUE,
     text |-> BackupString([Data |-> Serialize([k \in {"old"} |-> StoredValue]),
                            Secret |-> NoSecret])]

\* what commandBackup collects of the Vault secrets: every key with its value
Collected(sec) ==
    [k \in {k \in Keys : VaultHad(sec, k)} |-> VaultGet(sec, k).out.bytes]

\* log.Fatalf in main
Fatal(what) ==
    /\ pc' = "fatal"
    /\ errlog' = Append(errlog, what)

BackupFrame ==
    /\ UNCHANGED <<file, cryptoKey, now, last, origin, secrets, asm, raceVars>>
    /\ UNCHANGED <<cmd, backend, argKey, argValue, items, todo, attempts>>
    /\ UNCHANGED <<flags, backupFile0, cipherVars>>

\* backup: commandBackup
BackupCollect ==
    /\ cmd = "backup"
    /\ pc = "main"
    /\ saved' = Collected(secrets)
    /\ backup' = [Data |-> Serialize(Collected(secrets)), Secret |-> NoSecret]
    /\ pc' = "create"
    /\ UNCHANGED <<errlog, backupFile>>
    /\ BackupFrame

\* backup: os.Create(*oPath)
BackupCreate ==
    /\ cmd = "backup"
    /\ pc = "create"
    /\ \E ok \in BOOLEAN :
          IF ok
          THEN /\ backupFile' = CreatedFile
               /\ pc' = IF flags.encrypted THEN "pubkey" ELSE "write"
               /\ UNCHANGED errlog
          ELSE /\ Fatal("create file")
               /\ UNCHANGED backupFile
    /\ UNCHANGED <<backup, saved>>
    /\ BackupFrame

\* backup: getPublicKey
BackupPublicKey ==
    /\ cmd = "backup"
    /\ pc = "pubkey"
    /\ \E ok \in BOOLEAN :
          IF ok THEN pc' = "encrypt" /\ UNCHANGED errlog
          ELSE Fatal("get public key")
    /\ UNCHANGED <<backup, backupFile, saved>>
    /\ BackupFrame

\* backup: generateSecret and encryptFile
BackupEncrypt ==
    /\ cmd = "backup"
    /\ pc = "encrypt"
    /\ \E ok \in BOOLEAN, r \in RandDraws :
          LET secret == generateSecret(r[1])
          IN  IF ok
              THEN /\ backup' = [Data |-> encryptFile(backup.Data, secret),
                                 Secret |-> secret]
                   /\ pc' = "wrap"
                   /\ UNCHANGED errlog
              ELSE /\ backup' = [backup EXCEPT !.Secret = secret]
                   /\ Fatal("encrypt items")
    /\ UNCHANGED <<backupFile, saved>>
    /\ BackupFrame

\* backup: encryptSecret
BackupWrap ==
    /\ cmd = "backup"
    /\ pc = "wrap"
    /\ \E ok \in BOOLEAN :
          IF ok
          THEN /\ backup' = [backup EXCEPT
                                !.Secret = encryptSecret(backup.Secret, flags.pub)]
               /\ pc' = "write"
               /\ UNCHANGED errlog
          ELSE /\ Fatal("encrypt secret")
               /\ UNCHANGED backup
    /\ UNCHANGED <<backupFile, saved>>
    /\ BackupFrame

\* backup: file.Write([]byte(backup.String()))
BackupWrite ==
    /\ cmd = "backup"
    /\ pc = "write"
    /\ \E ok \in BOOLEAN :
          IF ok
          THEN /\ backupFile' = [exists |-> TRUE, text |-> BackupString(backup)]
               /\ pc' = "done"
               /\ UNCHANGED errlog
          ELSE /\ Fatal("save file")
               /\ UNCHANGED backupFile
    /\ UNCHANGED <<backup, saved>>
    /\ BackupFrame

\* the next command run: restore, of the file at oPath
RunRestore ==
    /\ cmd = "backup"
    /\ pc = "done"
    /\ cmd' = "restore"
    /\ pc' = "main"
    /\ UNCHANGED <<file, cryptoKey, now, last, origin, secrets, asm, raceVars>>
    /\ UNCHANGED <<backend, argKey, argValue, items, todo, attempts, errlog>>
    /\ UNCHANGED <<bakVars, cipherVars>>

\* json.Unmarshal(buf, &items) of the text of a backup file: the mapping of
\* a backup that is not encrypted; of an encrypted one, an error or the
\* members of the envelope, as the serialization has it
DecodeItems(text) ==
    IF text.t = "zero" THEN {[err |-> ErrJSON, items |-> NoSecrets]}
    ELSE IF text.WrappedKey.t = "none"
    THEN {[err |-> Nil, items |-> text.Payload.items]}
    ELSE {[err |-> ErrJSON, items |-> NoSecrets],
          [err |-> Nil, items |-> [n \in {"Payload"} |-> <<text.Payload>>]]}

\* restore: os.ReadFile(*oPath) and json.Unmarshal, no decryption
RestoreDecode ==
    /\ cmd = "restore"
    /\ pc = "main"
    /\ \E d \in DecodeItems(backupFile.text) :
          IF d.err # Nil
          THEN /\ Fatal("decode")
               /\ UNCHANGED <<items, todo>>
          ELSE /\ items' = d.items
               /\ todo' = DOMAIN d.items
               /\ pc' = "loop"
               /\ UNCHANGED errlog
    /\ UNCHANGED <<file, cryptoKey, now, last, origin, secrets, asm, raceVars>>
    /\ UNCHANGED <<cmd, backend, argKey, argValue, attempts>>
    /\ UNCHANGED <<bakVars, cipherVars>>

\* the secrets of the profile backed up
SourceStarts ==
    UNION {[{VaultPath(k) : k \in ks} -> {[value |-> v] : v \in Values}] :
              ks \in SUBSET Keys}

InitBackup ==
    /\ cmd = "backup"
    /\ backend = "vault"
    /\ pc = "main"
    /\ argKey = ""
    /\ argValue = <<>>
    /\ items = NoSecrets
    /\ todo = {}
    /\ attempts = <<>>
    /\ errlog = <<>>
    /\ file = NoFile
    /\ cryptoKey = NoPassphrase
    /\ now = 0
    /\ last = NoCall
    /\ origin = <<>>
    /\ secrets \in SourceStarts
    /\ asm = NoSecrets
    /\ RaceOff
    /\ flags \in [encrypted : BOOLEAN, pub : KeyPairs, priv : KeyPairs]
    /\ backup = <<>>
    /\ backupFile \in {NoBackupFile, OldBackupFile}
    /\ backupFile0 = backupFile
    /\ saved = <<>>
    /\ CipherOff

NextBackup ==
    \/ BackupCollect
    \/ BackupCreate
    \/ BackupPublicKey
    \/ BackupEncrypt
    \/ BackupWrap
    \/ BackupWrite
    \/ RunRestore
    \/ RestoreDecode
    \/ \E k \in DOMAIN items : RestorePut(k)
    \/ RestoreEnd

SpecBackup == InitBackup /\ [][NextBackup]_vars

----------------------------------------------------------------------------
(* encrypt and decrypt applied to given bytes *)

MaxPlain == 2
Bytes == {7, 8}
Plaintexts == UNION {[1..n -> Bytes] : n \in 0..MaxPlain}

\* what the random source may give for a salt or a nonce
RandBytes == {1, 2, 3}

\* the lengths a blob is cut to
CutLens == {0, 1, SaltLen, MinBlobLen - 1, MinBlobLen}

CipherFrame ==
    /\ UNCHANGED <<file, cryptoKey, now, origin, secrets, asm, raceVars, bakVars>>
    /\ UNCHANGED <<cmd, backend, argKey, argValue, items, todo, attempts, errlog>>

\* d.encrypt([]byte(value), d.cryptoKey)
CipherEncrypt(rs, rn) ==
    /\ pc = "clear"
    /\ LET e == encrypt(clear, cryptoKey, rs, rn)
       IN  /\ sealed' = e.val
           /\ last' = CallOn("cipher", "encrypt", cryptoKey, clear, FALSE, FALSE,
                             [err |-> e.err, out |-> [NoOut EXCEPT !.bytes = e.val]])
    /\ drawn' = [salt |-> rs, nonce |-> rn]
    /\ pc' = "sealed"
    /\ UNCHANGED clear
    /\ CipherFrame

\* d.decrypt(data, pass) of the first n bytes of what encrypt returned
CipherDecrypt(pass, n) ==
    /\ pc = "sealed"
    /\ LET data == SubSeq(sealed, 1, n)
           d == decrypt(data, pass)
       IN  last' = CallOn("cipher", "decrypt", pass, data, FALSE, FALSE,
                          [err |-> d.err, out |-> [NoOut EXCEPT !.bytes = d.val]])
    /\ pc' = "opened"
    /\ UNCHANGED cipherVars
    /\ CipherFrame

\* a store file whose one record, named key, holds data as its Value
FileOf(key, data) ==
    WriteFile(Marshal(MakeSlice(<<[Value |-> data,
                                   KeyInfo |-> [Name |-> key, CreatedAt |-> 1,
                                                Owner |-> OSUser, Info |-> ""]]>>)))

\* Get of a key whose record holds the first n bytes of what encrypt returned
CipherGet(key, pass, n) ==
    /\ pc = "sealed"
    /\ LET data == SubSeq(sealed, 1, n)
           g == Get(FileOf(key, data), pass, key)
       IN  last' = CallOn("file", "Get", key, data, FALSE, TRUE, g)
    /\ pc' = "opened"
    /\ UNCHANGED cipherVars
    /\ CipherFrame

InitCipher ==
    /\ clear \in Plaintexts
    /\ cryptoKey \in Passphrases
    /\ drawn = <<>>
    /\ sealed = <<>>
    /\ pc = "clear"
    /\ cmd = ""
    /\ backend = ""
    /\ argKey = ""
    /\ argValue = <<>>
    /\ items = NoSecrets
    /\ todo = {}
    /\ attempts = <<>>
    /\ errlog = <<>>
    /\ file = NoFile
    /\ now = 0
    /\ last = NoCall
    /\ origin = <<>>
    /\ secrets = NoSecrets
    /\ asm = NoSecrets
    /\ RaceOff
    /\ BakOff

NextCipher ==
    \/ \E rs \in RandBytes, rn \in RandBytes : CipherEncrypt(rs, rn)
    \/ \E pass \in Passphrases, n \in CutLens : CipherDecrypt(pass, n)
    \/ \E pass \in Passphrases : CipherDecrypt(pass, Len(sealed))
    \/ \E key \in Keys, pass \in Passphrases, n \in CutLens \cup {Len(sealed)} :
          CipherGet(key, pass, n)

SpecCipher == InitCipher /\ [][NextCipher]_vars

----------------------------------------------------------------------------
(* VaultStore over the keys of one project, a key under a parent included  *)

\* a key of the form parent/key
NestedKey == "p/k"
VaultKeys == Keys \cup {NestedKey}

\* strings.Split(keyPart, "/")
Segments(key) == IF key = NestedKey THEN <<"p", "k">> ELSE <<key>>

\* the name the server lists a key of the project by: the key, or its parent
\* with a slash
ListedName(key) ==
    IF Len(Segments(key)) > 1 THEN Segments(key)[1] \o "/" ELSE key

\* path.Join(p.ProjectID, keyName): joined with a slash, a trailing slash
\* cleaned away
PathJoin(dir, name) ==
    IF \E k \in VaultKeys : Len(Segments(k)) > 1 /\ name = Segments(k)[1] \o "/"
    THEN dir \o "/" \o Segments(NestedKey)[1]
    ELSE dir \o "/" \o name

\* GET /v1/<mount>/metadata/<project>?list=true: the names, each once
ServerList(sec) ==
    {ListedName(k) : k \in {x \in VaultKeys : VaultPath(x) \in DOMAIN sec}}

\* GET /v1/<mount>/metadata/<path>
ServerReadMetadata(sec, path) ==
    IF path \in DOMAIN sec THEN StatusOK ELSE StatusNotFound

\* the orders the server may list a set of names in
Orders(S) ==
    {f \in [1..Cardinality(S) -> S] : \A i, j \in DOMAIN f : f[i] = f[j] => i = j}

RECURSIVE VaultListLoop(_, _, _, _)
\* the loop of List over resp.Data.Keys, from index i, keys so far
VaultListLoop(sec, names, i, keys) ==
    IF i > Len(names) THEN [err |-> Nil, keys |-> keys]
    ELSE IF ServerReadMetadata(sec, PathJoin(ProjectID, names[i])) = StatusNotFound
    THEN [err |-> ErrVaultNotFound, keys |-> <<>>]
    ELSE VaultListLoop(sec, names, i + 1, Append(keys, [Name |-> names[i]]))

\* VaultStore.List, the server listing the names in the order names
VaultList(sec, names) ==
    LET r == VaultListLoop(sec, names, 1, <<>>)
    IN  [secrets |-> sec, err |-> r.err, out |-> [NoOut EXCEPT !.keys = r.keys]]

VaultDoList ==
    \E names \in Orders(ServerList(secrets)) :
        /\ last' = CallOn("vault", "List", "", <<>>, FALSE, FALSE,
                          VaultList(secrets, names))
        /\ UNCHANGED <<file, cryptoKey, now, origin, secrets, asm>>
        /\ UNCHANGED <<cliVars, raceVars, bakVars, cipherVars>>

InitVault ==
    /\ file = NoFile
    /\ cryptoKey = NoPassphrase
    /\ now = 0
    /\ last = NoCall
    /\ origin = <<>>
    /\ secrets = NoSecrets
    /\ asm = NoSecrets
    /\ CliOff
    /\ RaceOff
    /\ BakOff
    /\ CipherOff

NextVault ==
    \/ \E key \in VaultKeys : VaultDoGet(key)
    \/ \E key \in VaultKeys : VaultDoCheckExists(key)
    \/ \E key \in VaultKeys, value \in Values, overwrite \in BOOLEAN :
          VaultDoPut(key, value, overwrite)
    \/ \E key \in VaultKeys : VaultDoDelete(key)
    \/ VaultDoList

SpecVault == InitVault /\ [][NextVault]_vars

----------------------------------------------------------------------------
(* FileStore.Put with the failures of the calls it makes *)

MaxPuts == 2

ErrStat == "permission denied"
ErrCreate == "open: permission denied"
ErrRead == "read: input/output error"
ErrCipher == "chacha20poly1305: bad key length"

\* the call of Put that fails, if one does
Faults == {"none", "stat1", "create1", "cipher", "stat2", "read"}

\* createStoreIfNotExists leaving an empty file when os.Stat fails
createStoreIfNotExistsIO_Truncate(f, statFails, createFails) ==
    IF statFails THEN [file |-> WriteFile(ZeroBytes), err |-> ErrStat]
    ELSE IF ~f.exists
    THEN IF createFails THEN [file |-> f, err |-> ErrCreate]
         ELSE [file |-> WriteFile(ZeroBytes), err |-> Nil]
    ELSE [file |-> f, err |-> Nil]

\* createStoreIfNotExists, os.Stat failing with another error than
\* os.ErrNotExist when statFails, ioutil.WriteFile failing to open the file
\* when createFails
createStoreIfNotExistsIO(f, statFails, createFails) ==
    IF statFails THEN [file |-> f, err |-> ErrStat]
    ELSE IF ~f.exists
    THEN IF createFails THEN [file |-> f, err |-> ErrCreate]
         ELSE [file |-> WriteFile(ZeroBytes), err |-> Nil]
    ELSE [file |-> f, err |-> Nil]

\* getStore, ioutil.ReadFile failing when readFails
getStoreIO(f, statFails, readFails) ==
    LET c == createStoreIfNotExistsIO(f, statFails, FALSE)
    IN  IF c.err # Nil THEN [file |-> c.file, err |-> c.err, store |-> NilSlice]
        ELSE IF readFails THEN [file |-> c.file, err |-> ErrRead, store |-> NilSlice]
        ELSE IF c.file.data.kind = "zero"
        THEN [file |-> c.file, err |-> Nil, store |-> NilSlice]
        ELSE LET u == Unmarshal(c.file.data)
             IN  IF u.err # Nil
                 THEN [file |-> c.file, err |-> u.err, store |-> NilSlice]
                 ELSE [file |-> c.file, err |-> Nil, store |-> u.store]

\* FileStore.Put, the call named by fault failing
PutIO(f, pass, key, value, rs, rn, t, fault) ==
    LET c == createStoreIfNotExistsIO(f, fault = "stat1", fault = "create1")
        e == IF fault = "cipher" THEN [err |-> ErrCipher, val |-> <<>>]
             ELSE encrypt(value, pass, rs, rn)
        newStore == [Value |-> e.val,
                     KeyInfo |-> [Name |-> key, CreatedAt |-> t,
                                  Owner |-> OSUser, Info |-> ""]]
        s == getStoreIO(c.file, fault = "stat2", fault = "read")
        store == PutStore(s.store, newStore)
    IN  IF c.err # Nil THEN [file |-> c.file, err |-> c.err, out |-> NoOut]
        ELSE IF e.err # Nil THEN [file |-> c.file, err |-> e.err, out |-> NoOut]
        ELSE IF s.err # Nil THEN [file |-> s.file, err |-> s.err, out |-> NoOut]
        ELSE [file |-> WriteFile(Marshal(store)), err |-> Nil, out |-> NoOut]

DoPutIO(key, value, rs, rn, fault) ==
    /\ now < MaxPuts
    /\ LET r == PutIO(file, cryptoKey, key, value, rs, rn, now + 1, fault)
       IN  /\ file' = r.file
           /\ Returned(Call("Put", key, value, Had(file, key), r))
    /\ now' = now + 1
    /\ UNCHANGED cryptoKey
    /\ UNCHANGED notFsVars

\* a store file that is not JSON
MalformedFile == WriteFile([kind |-> "garbage", elems |-> <<>>])

FaultFiles ==
    {NoFile, WriteFile(ZeroBytes), MalformedFile,
     StoredFile(<<[Name |-> "a", pass |-> "hunter2", tamper |-> 0]>>)}

InitFaults ==
    /\ file \in FaultFiles
    /\ cryptoKey \in Passphrases
    /\ now = 0
    /\ last = NoCall
    /\ origin = <<>>
    /\ secrets = NoSecrets
    /\ asm = NoSecrets
    /\ CliOff
    /\ RaceOff
    /\ BakOff
    /\ CipherOff

NextFaults ==
    \/ \E key \in Keys, value \in Values, r \in RandDraws, fault \in Faults :
          DoPutIO(key, value, r[1], r[2], fault)
    \/ \E key \in Keys : DoGet(key)
    \/ DoList

SpecFaults == InitFaults /\ [][NextFaults]_vars

----------------------------------------------------------------------------
(* Two clients calling VaultStore.Put on one server, a step for each       *)
(* request                                                                 *)

\* where Put begins: with CheckExists unless overwrite
PutStart(overwrite) == IF overwrite THEN "write" ELSE "check"

Client(key, value, overwrite) ==
    [op |-> "Put", key |-> key, value |-> value, overwrite |-> overwrite,
     pc |-> PutStart(overwrite), err |-> Nil]

VaultRaceFrame ==
    /\ UNCHANGED <<file, cryptoKey, now, last, origin, asm, cliVars>>
    /\ UNCHANGED <<file0, overlap, bakVars, cipherVars>>

\* Put: v.CheckExists(ctx, p, key)
VaultRaceCheck(p) ==
    /\ procs[p].pc = "check"
    /\ LET c == VaultCheckExists(secrets, procs[p].key)
       IN  procs' = [procs EXCEPT ![p] =
              IF c.err # Nil THEN [@ EXCEPT !.err = c.err, !.pc = "done"]
              ELSE IF c.out.found
              THEN [@ EXCEPT !.err = ErrVaultExists(procs[p].key), !.pc = "done"]
              ELSE [@ EXCEPT !.pc = "write"]]
    /\ Finished(p)
    /\ UNCHANGED secrets
    /\ VaultRaceFrame

\* Put: v.client.Secrets.KvV2Write
VaultRaceWrite(p) ==
    /\ procs[p].pc = "write"
    /\ secrets' = ServerWrite(secrets, VaultPath(procs[p].key),
                              [value |-> procs[p].value]).secrets
    /\ procs' = [procs EXCEPT ![p].pc = "done"]
    /\ Finished(p)
    /\ VaultRaceFrame

InitVaultRace ==
    /\ procs \in [Procs -> {Client(k, v, o) :
                               k \in VaultKeys, v \in Values, o \in BOOLEAN}]
    /\ secrets = NoSecrets
    /\ order = <<>>
    /\ file0 = NoFile
    /\ overlap = FALSE
    /\ file = NoFile
    /\ cryptoKey = NoPassphrase
    /\ now = 0
    /\ last = NoCall
    /\ origin = <<>>
    /\ asm = NoSecrets
    /\ CliOff
    /\ BakOff
    /\ CipherOff

NextVaultRace ==
    \/ \E p \in Procs : VaultRaceCheck(p)
    \/ \E p \in Procs : VaultRaceWrite(p)

SpecVaultRace == InitVaultRace /\ [][NextVaultRace]_vars

----------------------------------------------------------------------------
(* Properties of the local store *)

\* the records of the JSON document in the file
Records(f) == f.data.elems
NameAt(f, i) == Records(f)[i].KeyInfo.Name
Named(f, key) == {i \in 1..Len(Records(f)) : NameAt(f, i) = key}
First(S) == CHOOSE i \in S : \A j \in S : i <= j

\* C1: after any sequence of calls on a store that began absent or empty,
\* the store file is zero bytes or a JSON array of records, never another
\* JSON value.
C1_FileIsZeroOrArray ==
    /\ file.data.kind \in {"zero", "brackets", "array"}
    /\ file.data.kind = "array" =>
          \A i \in 1..Len(Records(file)) :
              DOMAIN Records(file)[i] = {"Value", "KeyInfo"}

C1_Witness ==
    /\ last.op = "Delete"
    /\ last.had
    /\ file.data.kind = "array"

\* C2: a store without records is a file of exactly zero bytes (a first call
\* creates it so, and Delete of the last record leaves it so), and List
\* returns the empty sequence.
C2_EmptyIsZeroBytes ==
    /\ last.op \notin {"none", "NewFileStore"} => file.exists
    /\ (file.exists /\ Len(Records(file)) = 0) =>
          /\ file.data = ZeroBytes
          /\ List(file).err = Nil
          /\ List(file).out.keys = <<>>

C2_Witness ==
    /\ last.op = "Delete"
    /\ last.had
    /\ file.exists
    /\ Len(Records(file)) = 0

\* C3: a Put of a name not yet stored, followed by a Put of the same name
\* with another value under the same passphrase: Get returns the value of
\* the first Put, and List is the list before with one entry of the name
\* added at its end, the name now listed twice, the later entry last.
C3_PutAppends ==
    [][(/\ last.op = "Put" /\ last.err = Nil /\ ~last.had
        /\ last'.op = "Put" /\ last'.err = Nil /\ now' = now + 1
        /\ last'.key = last.key /\ last'.value # last.value
        /\ cryptoKey' = cryptoKey)
       => LET g == Get(file', cryptoKey', last.key)
              l == List(file').out.keys
              n == Len(l)
          IN  /\ g.err = Nil
              /\ g.out.bytes = last.value
              /\ n >= 2
              /\ SubSeq(l, 1, n - 1) = List(file).out.keys
              /\ l[n - 1].Name = last.key
              /\ l[n].Name = last.key
              /\ l[n - 1].CreatedAt < l[n].CreatedAt
              /\ Cardinality({i \in 1..n : l[i].Name = last.key}) = 2]_vars

C3_Witness ==
    /\ last.op = "Put"
    /\ last.had
    /\ Cardinality(Named(file, last.key)) = 2
    /\ Get(file, cryptoKey, last.key).err = Nil
    /\ Get(file, cryptoKey, last.key).out.bytes # last.value

\* C4: Get of a name fails with the not-found error exactly when no record
\* has the name; when the first record of the name was sealed under another
\* passphrase or has had a byte changed, Get fails with the authentication
\* error, which is not the not-found error; otherwise Get returns the value
\* sealed in that first record.
C4_GetOutcome ==
    \A key \in Keys :
        LET g == Get(file, cryptoKey, key)
        IN  /\ g.err = ErrNotFound(key) <=> Named(file, key) = {}
            /\ Named(file, key) # {} =>
                  LET o == origin[First(Named(file, key))]
                  IN  IF o.pass = cryptoKey /\ o.tamper = 0
                      THEN g.err = Nil /\ g.out.bytes = StoredValue
                      ELSE g.err = ErrAuth /\ g.err # ErrNotFound(key)
            /\ (last.op = "Get" /\ last.key = key) =>
                  last.err = g.err /\ last.out = g.out

C4_Witness ==
    /\ last.op = "Get"
    /\ last.err = ErrAuth
    /\ Cardinality(Named(file, last.key)) = 2
    /\ origin[First(Named(file, last.key))].tamper # 0
    /\ origin[First(Named(file, last.key))].pass = cryptoKey
    /\ \E i \in Named(file, last.key) :
          origin[i].tamper = 0 /\ origin[i].pass = cryptoKey

\* C5: Delete of a name leaves exactly the records of other names, in the
\* order they had; afterwards CheckExists of the name is false and Get of
\* it fails with the not-found error.
C5_DeleteRemovesAll ==
    [][(last'.op = "Delete" /\ last'.err = Nil)
       => LET kept == {i \in 1..Len(Records(file)) : NameAt(file, i) # last'.key}
              KeptBefore(i) == Cardinality({j \in kept : j <= i})
          IN  /\ Len(Records(file')) = Cardinality(kept)
              /\ \A i \in kept : Records(file')[KeptBefore(i)] = Records(file)[i]
              /\ CheckExists(file', last'.key).err = Nil
              /\ ~CheckExists(file', last'.key).out.found
              /\ Get(file', cryptoKey', last'.key).err = ErrNotFound(last'.key)]_vars

C5_Witness ==
    /\ last.op = "Delete"
    /\ last.had
    /\ now = MaxClock
    /\ Len(Records(file)) = 1
    /\ Records(file)[1].KeyInfo.CreatedAt = 2

----------------------------------------------------------------------------
(* Properties of every backend *)

\* C6: on every backend, Delete of a key under which nothing is stored
\* (never stored, or deleted before) returns without an error and changes
\* nothing that is stored.
C6_DeleteIdempotent ==
    [][(last'.op = "Delete" /\ ~last'.had)
       => /\ last'.err = Nil
          /\ secrets' = secrets
          /\ asm' = asm
          /\ Records(file') = Records(file)]_vars

\* C7: on every remote backend, Put with overwrite = false of a key under
\* which a secret is stored returns an error and leaves what is stored as
\* it was.
C7_OverwriteHonored ==
    [][(/\ last'.op = "Put"
        /\ last'.on \in {"vault", "asm"}
        /\ last'.had
        /\ ~last'.overwrite)
       => /\ last'.err # Nil
          /\ secrets' = secrets
          /\ asm' = asm]_vars

\* C16: when Put returns an error of os.Stat, of creating the store, of
\* encrypt, of reading the file or of decoding it, a store file that existed
\* before the call has the bytes it had, and List and Get return afterwards
\* what they returned before.
C16_FailedPutKeepsFile ==
    [][(last'.op = "Put" /\ last'.err # Nil /\ file.exists) =>
          /\ file' = file
          /\ List(file').out = List(file).out
          /\ \A key \in Keys, pass \in Passphrases :
                Get(file', pass, key).out = Get(file, pass, key).out]_vars

C16_Witness ==
    /\ last.op = "Put"
    /\ last.err \in {ErrStat, ErrCipher, ErrRead}
    /\ Len(Records(file)) = 1
    /\ now = MaxPuts

----------------------------------------------------------------------------
(* Properties of the commands *)

\* C8: whenever a command has called Get or Put on a FileStore, the
\* passphrase has been given to the store with SetParameter before.
C8_PasswordBeforeCall ==
    (pc # "off" /\ last.on = "file" /\ last.op \in {"Get", "Put"})
        => cryptoKey # NoPassphrase

\* C10: restore attempts exactly one Put per entry of the mapping it has
\* visited, under the entry's name with _restore added, of the entry's value
\* and without overwrite; each failed Put is logged; and when restore ends
\* every entry has been visited, whichever Puts failed.
C10_RestoreBestEffort ==
    (cmd = "restore" /\ pc \in {"loop", "done"}) =>
        LET visited == DOMAIN items \ todo
            Of(k) == {i \in 1..Len(attempts) : attempts[i].key = Restored(k)}
            failed == {i \in 1..Len(attempts) : attempts[i].err # Nil}
        IN  /\ Len(attempts) = Cardinality(visited)
            /\ \A k \in visited :
                  /\ Cardinality(Of(k)) = 1
                  /\ \A i \in Of(k) :
                        /\ attempts[i].op = "Put"
                        /\ attempts[i].value = items[k]
                        /\ ~attempts[i].overwrite
            /\ Len(errlog) = Cardinality(failed)
            /\ \A i \in failed : \E j \in 1..Len(errlog) :
                  Restored(errlog[j]) = attempts[i].key
            /\ pc = "done" => todo = {}

C10_Witness ==
    /\ cmd = "restore"
    /\ pc = "done"
    /\ Len(attempts) = 2
    /\ attempts[1].err # Nil
    /\ attempts[2].err = Nil
    /\ errlog # <<>>

\* what Get returns of a key from the profile's backend, the store being
\* opened with pass when it is the local one
GetOf(f, sec, m, pass, key) ==
    IF backend = "file" THEN Get(f, pass, key)
    ELSE IF backend = "vault" THEN VaultGet(sec, key)
    ELSE AsmGet(m, key)

\* C11: no step of restore changes the value Get returns for a key the
\* destination held before the step, the keys named <name>_restore included,
\* whatever the destination backend and the backup mapping.
C11_RestoreKeepsLive ==
    [][cmd = "restore" =>
          \A key \in DestKeys, pass \in Passphrases :
              LET before == GetOf(file, secrets, asm, pass, key)
                  after == GetOf(file', secrets', asm', pass, key)
              IN  before.err = Nil =>
                     (after.err = Nil /\ after.out.bytes = before.out.bytes)]_vars

\* C12: when a backup encrypted for a key pair has been restored with the
\* private half of that pair at hand, the destination holds every backed-up
\* value under its renamed key; and a restore without the matching private
\* half fails and puts nothing.
C12_BackupRoundTrip ==
    (cmd = "restore" /\ backupFile # <<>> /\ flags.encrypted) =>
        IF flags.priv = flags.pub
        THEN pc \in {"done", "fatal"} =>
                \A k \in DOMAIN saved :
                    LET g == VaultGet(secrets, Restored(k))
                    IN  g.err = Nil /\ g.out.bytes = saved[k]
        ELSE pc # "done" /\ attempts = <<>>

\* C18: in a backup with encryption, what the command writes to the file
\* at oPath holds the payload sealed and the envelope key wrapped, never the
\* mapping or the envelope key themselves; and when fetching the public key,
\* encrypting the payload or wrapping the key fails, nothing of the backup
\* is written and a file that was at oPath before keeps its contents.
C18_EncryptedBackupFile ==
    (cmd = "backup" /\ backupFile # <<>> /\ flags.encrypted) =>
        /\ \/ backupFile \in {backupFile0, CreatedFile}
           \/ /\ backupFile.text.t = "envelope"
              /\ backupFile.text.Payload.t = "sealed"
              /\ backupFile.text.WrappedKey.t = "wrapped"
        /\ (/\ pc = "fatal"
            /\ errlog[Len(errlog)] \in
                  {"get public key", "encrypt items", "encrypt secret"}) =>
               IF backupFile0.exists THEN backupFile = backupFile0
               ELSE backupFile.text = ZeroText

\* the key-to-value map a state of the Vault server stands for
MapOf(sec) ==
    [k \in {x \in VaultKeys : VaultPath(x) \in DOMAIN sec} |-> sec[VaultPath(k)].value]

\* C15: every call on the VaultStore agrees with a key-to-value map: a Put
\* that succeeds sets the key to the value and one that fails changes
\* nothing, Delete removes the key, Get returns the value of a stored key
\* and an error for any other, CheckExists returns without error whether
\* the key is stored, and List returns exactly the stored key names.
C15_VaultAgreesWithMap ==
    [][last'.on = "vault" =>
          LET m == MapOf(secrets)
              after == MapOf(secrets')
              c == last'
          IN  /\ c.op = "Put" =>
                    after = IF c.err = Nil THEN MapSet(m, c.key, c.value) ELSE m
              /\ c.op = "Delete" => (c.err = Nil /\ after = MapDelete(m, c.key))
              /\ c.op \in {"Get", "CheckExists", "List"} => after = m
              /\ c.op = "Get" =>
                    IF c.key \in DOMAIN m
                    THEN c.err = Nil /\ c.out.bytes = m[c.key]
                    ELSE c.err # Nil
              /\ c.op = "CheckExists" =>
                    (c.err = Nil /\ c.out.found = (c.key \in DOMAIN m))
              /\ c.op = "List" =>
                    /\ c.err = Nil
                    /\ {c.out.keys[i].Name : i \in 1..Len(c.out.keys)} = DOMAIN m
                    /\ Len(c.out.keys) = Cardinality(DOMAIN m)]_vars

----------------------------------------------------------------------------
(* Properties of the cipher *)

\* C13: what encrypt returns is the 16 bytes of the salt, the 24 bytes of
\* the nonce, then the ciphertext sealed under the key derived from the
\* passphrase and that salt; and decrypt of it with the same passphrase
\* returns the bytes that were encrypted, the empty sequence included,
\* whatever salt and nonce were drawn.
C13_DecryptOfEncrypt ==
    pc \in {"sealed", "opened"} =>
        LET salt == SubSeq(sealed, 1, SaltLen)
            nonce == SubSeq(sealed, SaltLen + 1, SaltLen + NonceLen)
            rest == SubSeq(sealed, SaltLen + NonceLen + 1, Len(sealed))
        IN  /\ Len(sealed) = SaltLen + NonceLen + Len(clear) + TagLen
            /\ salt = makeNonce(SaltLen, drawn.salt)
            /\ nonce = makeNonce(NonceLen, drawn.nonce)
            /\ rest = Seal(Argon2Key(cryptoKey, salt), nonce, clear)
            /\ (/\ last.op = "decrypt"
                /\ last.key = cryptoKey
                /\ last.value = sealed) =>
                   (last.err = Nil /\ last.out.bytes = clear)

C13_Witness ==
    /\ pc = "opened"
    /\ last.op = "decrypt"
    /\ last.key = cryptoKey
    /\ last.value = sealed
    /\ clear = <<>>
    /\ drawn.salt # drawn.nonce
    /\ last.out.bytes = <<>>

\* C14: decrypt of fewer than 40 bytes fails with the format error, not the
\* authentication error, whatever the passphrase; and Get of a name whose
\* first record holds fewer than 40 bytes returns that format error.
C14_ShortBlobFormatError ==
    (pc = "opened" /\ Len(last.value) < MinBlobLen) =>
        /\ last.op = "decrypt" =>
              (last.err = ErrFormat /\ last.err \notin {ErrOpen, ErrAuth})
        /\ last.op = "Get" => last.err = ErrFormat

----------------------------------------------------------------------------
(* Properties of two processes on one store file *)

BothDone == \A p \in Procs : procs[p].pc = "done" /\ procs[p].err = Nil

\* p's change is in the file: the record its Put built, or no record of the
\* name it deleted
Present(p) ==
    IF procs[p].op = "Put"
    THEN \E i \in 1..Len(Records(file)) :
            /\ Records(file)[i].KeyInfo = procs[p].entry.KeyInfo
            /\ Base64Decode(Records(file)[i].Value) = procs[p].entry.Value
    ELSE Named(file, procs[p].key) = {}

\* what the call of p leaves of file f when nothing runs within it
Alone(f, p) ==
    IF procs[p].op = "Put"
    THEN Put(f, cryptoKey, procs[p].key, procs[p].value, 1, 2,
             procs[p].entry.KeyInfo.CreatedAt).file
    ELSE Delete(f, procs[p].key).file

\* C9: when both calls have returned without error, the file is what the
\* later writer made of the file it read, so its change is present whatever
\* the steps between; and when no step of one call fell within the other,
\* the file is what the two calls leave one after the other, and the earlier
\* change is present too unless the later call is the opposite operation on
\* the same name.
C9_LastWriteWins ==
    (procs # <<>> /\ BothDone) =>
        LET earlier == order[1]
            later == order[2]
        IN  /\ Present(later)
            /\ ~overlap =>
                  /\ file = Alone(Alone(file0, earlier), later)
                  /\ \/ Present(earlier)
                     \/ /\ procs[later].key = procs[earlier].key
                        /\ procs[later].op # procs[earlier].op

\* both calls returned without error, their steps interleaved, and the
\* record of the earlier writer's Put is not in the file though the later
\* call was a Put of another name
C9_Witness ==
    /\ procs # <<>>
    /\ BothDone
    /\ overlap
    /\ procs[order[1]].op = "Put"
    /\ procs[order[2]].op = "Put"
    /\ procs[order[2]].key # procs[order[1]].key
    /\ ~Present(order[1])

\* C17: when two clients Put different values to one key that was not
\* stored, both without overwrite, at most one of the Puts succeeds, and
\* the value of a Put that succeeded stays the value stored.
C17_PutIfAbsentAtomic ==
    \A p, q \in DOMAIN procs :
        (/\ p # q
         /\ procs[p].op = "Put" /\ procs[q].op = "Put"
         /\ "overwrite" \in DOMAIN procs[p] /\ "overwrite" \in DOMAIN procs[q]
         /\ ~procs[p].overwrite /\ ~procs[q].overwrite
         /\ procs[p].key = procs[q].key
         /\ procs[p].value # procs[q].value) =>
            /\ ~(/\ procs[p].pc = "done" /\ procs[p].err = Nil
                 /\ procs[q].pc = "done" /\ procs[q].err = Nil)
            /\ (procs[p].pc = "done" /\ procs[p].err = Nil) =>
                  VaultGet(secrets, procs[p].key).out.bytes = procs[p].value

====
